---- MODULE Spec2Model ----
(***************************************************************************)
(* Model of the NVE hydrological integrations for Home Assistant:          *)
(*   custom_components/sildre          (id + explicit series list)         *)
(*   custom_components/nve_water_flow  (single id, discharge only)         *)
(*                                                                         *)
(* Python values are modelled as follows.                                  *)
(*   - a dict is a function whose domain is its set of keys, so that       *)
(*     len(d) is Cardinality(DOMAIN d) and d.get(k) is Get(d, k, ...);     *)
(*   - a list is a sequence;                                               *)
(*   - JSON scalars are strings ("12.3"), the scalar None is NoneS, except *)
(*     parameter ids, which the API sends as integers;                     *)
(*   - what a call returns or raises is a record with a tag: PyNone,       *)
(*     PyTrue, PyStr(s), PyList(l), PyDict(d), Raise(e).                   *)
(***************************************************************************)
EXTENDS Integers, Sequences, FiniteSets, TLC

VARIABLES
    call,          \* the last client call: generation, operation, response, outcome
    gen,           \* which generation the coordinator belongs to
    pc,            \* position of the coordinator's refresh: idle / obs / info
    tick,          \* number of refresh ticks started so far
    now,           \* the wall clock read by datetime.now()
    local,         \* the station_data dict _fetch_station_data is building
    data,          \* coordinator.data, the snapshot the host publishes
    station_data,  \* SildreCoordinator.station_data
    last_update,   \* coordinator._last_update
    outcome,       \* how the last _async_update_data ended (returned / raised)
    fetched,       \* what the two client calls of the last finished tick returned
    host           \* the host-side operation under study: a coordinator being
                   \* constructed, a configuration flow, or a configuration entry

vars == <<call, gen, pc, tick, now, local, data, station_data, last_update,
          outcome, fetched, host>>

coordVars == <<gen, pc, tick, now, local, data, station_data, last_update,
               outcome, fetched>>

-----------------------------------------------------------------------------
(* Bounds of the model *)

MaxObsLen == 2
MaxSeries == 2
MaxStations == 2
MaxTicks == 2

-----------------------------------------------------------------------------
(* Python values *)

NoneS == "None"
PyNone == [tag |-> "None"]
PyTrue == [tag |-> "True"]
PyFalse == [tag |-> "False"]
PyStr(s) == [tag |-> "str", s |-> s]
PyList(l) == [tag |-> "list", items |-> l]
PyDict(d) == [tag |-> "dict", d |-> d]
Raise(e) == [tag |-> "raise", exc |-> e]

EmptyDict == [k \in {} |-> NoneS]

Get(d, k, default) == IF k \in DOMAIN d THEN d[k] ELSE default

\* Python truth value of an object: None, [] and {} are false.
Truthy(v) ==
    CASE v.tag = "None" -> FALSE
      [] v.tag = "False" -> FALSE
      [] v.tag = "list" -> Len(v.items) > 0
      [] v.tag = "dict" -> DOMAIN v.d # {}
      [] v.tag = "str"  -> v.s # ""
      [] OTHER -> TRUE

\* Python truth value of a JSON scalar: None and "" are false.
TruthyS(s) == s # NoneS /\ s # ""

SeqsUpTo(S, n) == UNION {[1..k -> S] : k \in 0..n}

Generations == {"sildre", "nve_water_flow"}

-----------------------------------------------------------------------------
(* What the upstream API can answer *)

Statuses == {200, 401, 404, 500}

\* Exceptions session.get can raise.  A refused connection or a DNS failure
\* is an aiohttp.ClientError; the session's total timeout is raised as
\* asyncio.TimeoutError, which is not.
NetworkErrors == {"ClientConnectorError", "TimeoutError"}
ClientErrors == {"ClientConnectorError", "ContentTypeError"}

WATER_FLOW_PARAMETER_ID == 1001

\* Parameter ids of the API (discharge, water level, water temperature, air
\* temperature), in the order an answer lists its series.
ParameterIds == <<WATER_FLOW_PARAMETER_ID, 1000, 1003, 17>>

\* Python's str() on a parameter id.
str(p) ==
    CASE p = 1001 -> "1001"
      [] p = 1000 -> "1000"
      [] p = 1003 -> "1003"
      [] p = 17   -> "17"

\* Two observations; the later one lacks the optional flags.
ObsPool ==
    { [time |-> "2024-01-01T09:00:00Z", value |-> "11.2", quality |-> "1", correction |-> "0"],
      [time |-> "2024-01-01T10:00:00Z", value |-> "12.3"] }

ParameterName(p) ==
    CASE p = 1001 -> "Vannforing"
      [] p = 1000 -> "Vannstand"
      [] p = 1003 -> "Vanntemperatur"
      [] p = 17   -> "Lufttemperatur"

\* The series an answer can hold for parameter p, with observations arrays of
\* at most n elements; the last one has no "observations" key at all.
SeriesOf(p, n) ==
    { [parameter |-> p, parameterName |-> ParameterName(p), unit |-> "m3/s",
       stationName |-> "Gryta", method |-> "Mean", observations |-> o] : o \in SeqsUpTo(ObsPool, n) }
    \cup { [parameter |-> p] }

\* An Observations answer holds one series per parameter.
RECURSIVE SeriesListsOfLen(_, _)
SeriesListsOfLen(k, n) ==
    IF k = 0 THEN {<<>>}
    ELSE { Append(l, s) : l \in SeriesListsOfLen(k - 1, n), s \in SeriesOf(ParameterIds[k], n) }

SeriesLists == UNION { SeriesListsOfLen(k, MaxObsLen) : k \in 0..MaxSeries }

StationPool ==
    { [stationId |-> "6.10.0", stationName |-> "Gryta", culQm |-> "8.0", culQ5 |-> "40.0",
       culQ50 |-> "120.0",
       seriesList |-> << [parameterName |-> "Vannforing", parameter |-> WATER_FLOW_PARAMETER_ID,
                          unit |-> "m3/s"] >>],
      [stationId |-> "12.7.0", stationName |-> "Gryta nedre", culQm |-> NoneS, culQ5 |-> NoneS,
       culQ50 |-> NoneS, seriesList |-> <<>>],
      [stationId |-> "", stationName |-> "Urula"],
      [stationName |-> "Lierelv"] }

StationLists == SeqsUpTo(StationPool, MaxStations)

HttpError(e) == [kind |-> "error", exc |-> e]
Http(s, j, b) == [kind |-> "http", status |-> s, json_ok |-> j, body |-> b]

\* Answers whose body is never read: a failed request, a status other than 200,
\* or a 200 whose body is not JSON.
BodylessResponses ==
    { HttpError(e) : e \in NetworkErrors }
    \cup { Http(s, TRUE, EmptyDict) : s \in Statuses \ {200} }
    \cup { Http(200, FALSE, EmptyDict) }

ProbeResponses ==
    { HttpError(e) : e \in NetworkErrors } \cup { Http(s, TRUE, EmptyDict) : s \in Statuses }

ObservationResponses ==
    BodylessResponses
    \cup { Http(200, TRUE, [data |-> l]) : l \in SeriesLists }
    \cup { Http(200, TRUE, EmptyDict) }

StationResponses ==
    BodylessResponses
    \cup { Http(200, TRUE, [data |-> l]) : l \in StationLists }
    \cup { Http(200, TRUE, EmptyDict) }

-----------------------------------------------------------------------------
(* The API client, nve_api.py *)

\* NVEAPI.test_connection (the same code in both generations).
test_connection(resp) ==
    IF resp.kind = "error"
    THEN IF resp.exc \in ClientErrors
         THEN Raise("CannotConnect")        \* except aiohttp.ClientError
         ELSE Raise(resp.exc)               \* no handler: propagates
    ELSE IF resp.status = 200 THEN PyTrue
    ELSE IF resp.status = 401 THEN Raise("InvalidAPIKey")
    ELSE Raise("CannotConnect")

\* SeriesRecord reading observations[0] instead of observations[-1].
SeriesRecordFirst(series) ==
    LET first == series.observations[1]
    IN  [parameter  |-> series.parameter,
         time       |-> Get(first, "time", NoneS),
         value      |-> Get(first, "value", NoneS),
         correction |-> Get(first, "correction", NoneS),
         quality    |-> Get(first, "quality", NoneS)]

\* The record get_series_data appends for one series.
SeriesRecord(series) ==
    LET observations == series.observations
        last == observations[Len(observations)]
    IN  [parameter  |-> series.parameter,
         time       |-> Get(last, "time", NoneS),
         value      |-> Get(last, "value", NoneS),
         correction |-> Get(last, "correction", NoneS),
         quality    |-> Get(last, "quality", NoneS)]

RECURSIVE SeriesLoop(_)

\* SeriesLoop leaving the loop at the first series without observations.
SeriesLoopBreaking(series_data) ==
    IF series_data = <<>> THEN <<>>
    ELSE IF Get(Head(series_data), "observations", <<>>) = <<>> THEN <<>>     \* break
    ELSE <<SeriesRecord(Head(series_data))>> \o SeriesLoop(Tail(series_data))

\* The loop of get_series_data over the series of the answer.
SeriesLoop(series_data) ==
    IF series_data = <<>> THEN <<>>
    ELSE LET series == Head(series_data)
             observations == Get(series, "observations", <<>>)
         IN  IF observations = <<>>
             THEN SeriesLoop(Tail(series_data))                          \* continue
             ELSE <<SeriesRecord(series)>> \o SeriesLoop(Tail(series_data))

\* NVEAPI.get_series_data (sildre).
get_series_data(resp) ==
    IF resp.kind = "error" THEN PyNone                 \* except Exception
    ELSE IF resp.status # 200 THEN PyNone
    ELSE IF ~resp.json_ok THEN PyNone                  \* response.json() raises
    ELSE PyList(SeriesLoop(Get(resp.body, "data", <<>>)))

\* NVEAPI.get_water_flow_data (nve_water_flow).
get_water_flow_data(station_id, resp) ==
    IF resp.kind = "error" THEN PyNone
    ELSE IF resp.status # 200 THEN PyNone
    ELSE IF ~resp.json_ok THEN PyNone
    ELSE LET series_data == Get(resp.body, "data", <<>>) IN
         IF series_data = <<>> THEN PyNone
         ELSE LET series == series_data[1]
                  observations == Get(series, "observations", <<>>)
              IN  IF observations = <<>> THEN PyNone
                  ELSE LET latest_observation == observations[Len(observations)] IN
                       PyDict([station_id     |-> station_id,
                               station_name   |-> Get(series, "stationName", "Unknown"),
                               parameter_name |-> Get(series, "parameterName", "Unknown"),
                               unit           |-> Get(series, "unit", "Unknown"),
                               value          |-> Get(latest_observation, "value", NoneS),
                               time           |-> Get(latest_observation, "time", NoneS),
                               quality        |-> Get(latest_observation, "quality", NoneS),
                               correction     |-> Get(latest_observation, "correction", NoneS),
                               method         |-> Get(series, "method", "Unknown")])

\* The StationRecord the sildre client builds from the first station.
StationRecord(station) ==
    LET series_list_raw == Get(station, "seriesList", <<>>) IN
    [station_id   |-> Get(station, "stationId", NoneS),
     station_name |-> Get(station, "stationName", NoneS),
     culQm        |-> Get(station, "culQm", NoneS),
     culQ5        |-> Get(station, "culQ5", NoneS),
     culQ50       |-> Get(station, "culQ50", NoneS),
     series_list  |-> [i \in 1..Len(series_list_raw) |->
                        [parameter_name |-> Get(series_list_raw[i], "parameterName", NoneS),
                         parameter      |-> str(series_list_raw[i].parameter),
                         unit           |-> Get(series_list_raw[i], "unit", NoneS)]]]

\* sildre_get_station_info without the "if not stations" test, building the
\* record from an empty station instead.
sildre_get_station_info_unguarded(resp) ==
    IF resp.kind = "error" THEN PyNone
    ELSE IF resp.status = 401 THEN Raise("InvalidAPIKey")
    ELSE IF resp.status # 200 THEN PyNone
    ELSE IF ~resp.json_ok THEN PyNone
    ELSE LET stations == Get(resp.body, "data", <<>>) IN
         PyDict(StationRecord(IF stations = <<>> THEN EmptyDict ELSE stations[1]))

\* NVEAPI.get_station_info (sildre).
sildre_get_station_info(resp) ==
    IF resp.kind = "error" THEN PyNone                 \* except Exception
    ELSE IF resp.status = 401 THEN Raise("InvalidAPIKey")   \* re-raised
    ELSE IF resp.status # 200 THEN PyNone
    ELSE IF ~resp.json_ok THEN PyNone
    ELSE LET stations == Get(resp.body, "data", <<>>) IN
         IF stations = <<>> THEN PyNone
         ELSE PyDict(StationRecord(stations[1]))

\* NVEAPI.get_station_info (nve_water_flow).
nve_water_flow_get_station_info(resp) ==
    IF resp.kind = "error" THEN PyNone
    ELSE IF resp.status # 200 THEN PyNone
    ELSE IF ~resp.json_ok THEN PyNone
    ELSE LET stations == Get(resp.body, "data", <<>>) IN
         IF stations = <<>> THEN PyNone
         ELSE PyDict(stations[1])

get_station_info(g, resp) ==
    IF g = "sildre" THEN sildre_get_station_info(resp)
    ELSE nve_water_flow_get_station_info(resp)

\* What resolve_station_name logs and returns; log lists the levels used.
Logged(result, levels) == [tag |-> result.tag, s |-> Get(result, "s", NoneS), log |-> levels]

\* resolve_station_name taking stations[-1] instead of stations[0].
resolve_station_name_last(resp) ==
    IF resp.kind = "error" THEN Logged(PyNone, <<"error">>)
    ELSE IF resp.status # 200 THEN Logged(PyNone, <<"error">>)
    ELSE IF ~resp.json_ok THEN Logged(PyNone, <<"error">>)
    ELSE LET stations == Get(resp.body, "data", <<>>) IN
         IF stations = <<>> THEN Logged(PyNone, <<"warning">>)
         ELSE LET multiple   == IF Len(stations) > 1 THEN <<"warning">> ELSE <<>>
                  station_id == Get(stations[Len(stations)], "stationId", NoneS)
              IN  IF ~TruthyS(station_id)
                  THEN Logged(PyNone, multiple \o <<"error">>)
                  ELSE Logged(PyStr(station_id), multiple \o <<"info">>)

\* NVEAPI.resolve_station_name (nve_water_flow).
resolve_station_name(resp) ==
    IF resp.kind = "error" THEN Logged(PyNone, <<"error">>)
    ELSE IF resp.status # 200 THEN Logged(PyNone, <<"error">>)
    ELSE IF ~resp.json_ok THEN Logged(PyNone, <<"error">>)
    ELSE LET stations == Get(resp.body, "data", <<>>) IN
         IF stations = <<>> THEN Logged(PyNone, <<"warning">>)
         ELSE LET multiple   == IF Len(stations) > 1 THEN <<"warning">> ELSE <<>>
                  station_id == Get(stations[1], "stationId", NoneS)
              IN  IF ~TruthyS(station_id)
                  THEN Logged(PyNone, multiple \o <<"error">>)
                  ELSE Logged(PyStr(station_id), multiple \o <<"info">>)

-----------------------------------------------------------------------------
(* The refresh coordinator, coordinator.py *)

\* The configured station (entry.data of the config entry).
StationId == "6.10.0"
StationName == "Gryta"

NoTime == 0          \* _last_update = None

\* How an answer is classified by the tick that received it.
FetchClass(resp) ==
    IF resp.kind = "error" THEN "raised"
    ELSE IF resp.status # 200 THEN "non200"
    ELSE IF ~resp.json_ok THEN "badjson"
    ELSE "ok"

\* The answers a refresh tick draws from: as the client's, with at most one
\* observation per series and at most one station per answer.
TickSeriesLists == UNION { SeriesListsOfLen(k, 1) : k \in 0..MaxSeries }

TickObservationResponses ==
    BodylessResponses \cup { Http(200, TRUE, [data |-> l]) : l \in TickSeriesLists }

TickStationResponses ==
    BodylessResponses \cup { Http(200, TRUE, [data |-> l]) : l \in SeqsUpTo(StationPool, 1) }

\* _fetch_station_data, up to its first await: the dict it starts from.
InitialStationData(t) ==
    [station_id |-> StationId, station_name |-> StationName, last_update |-> t]

\* _fetch_station_data, after the observation fetch returned `result`.
AddSeriesData(g, sd, result) ==
    IF ~Truthy(result) THEN sd
    ELSE IF g = "sildre" THEN sd @@ [series_data |-> result.items]
    ELSE sd @@ [water_flow_data |-> result.d]

\* The culQ values _fetch_station_data extracts from a station info.
CulqData(station_info) ==
    [k \in {"culQm", "culQ5", "culQ50"} \cap DOMAIN station_info |-> station_info[k]]

\* The snapshot inside a published value: the value itself in sildre, the
\* entry under the station id in nve_water_flow; empty when there is none.
SnapshotOf(g, v) ==
    IF v.tag # "dict" THEN EmptyDict
    ELSE IF g = "sildre" THEN v.d
    ELSE Get(v.d, StationId, EmptyDict)

\* AddCulqData falling back on the culq_data of the published snapshot when
\* this tick's station info gives none.
AddCulqDataCarriedOver(sd, station_info) ==
    IF Truthy(station_info) /\ DOMAIN CulqData(station_info.d) # {}
    THEN sd @@ [culq_data |-> CulqData(station_info.d)]
    ELSE IF "culq_data" \in DOMAIN SnapshotOf(gen, data)
         THEN sd @@ [culq_data |-> SnapshotOf(gen, data).culq_data]
         ELSE sd

\* _fetch_station_data, after the station-info fetch returned `station_info`.
AddCulqData(sd, station_info) ==
    IF Truthy(station_info) /\ DOMAIN CulqData(station_info.d) # {}
    THEN sd @@ [culq_data |-> CulqData(station_info.d)]
    ELSE sd

\* _fetch_station_data, its final test and return.
ReturnStationData(sd) ==
    IF Cardinality(DOMAIN sd) > 2 THEN PyDict(sd) ELSE PyNone

\* _fetch_station_data taking over the station id of the station info.
_fetch_station_data_adopting_id(sd, station_info) ==
    IF station_info.tag = "raise" THEN station_info
    ELSE IF ~Truthy(station_info) THEN ReturnStationData(AddCulqData(sd, station_info))
    ELSE LET id == Get(station_info.d, "station_id", Get(station_info.d, "stationId", NoneS))
         IN  ReturnStationData([AddCulqData(sd, station_info) EXCEPT !.station_id = id])

\* _fetch_station_data from the second await on: what it returns or raises.
_fetch_station_data(sd, station_info) ==
    IF station_info.tag = "raise" THEN station_info
    ELSE ReturnStationData(AddCulqData(sd, station_info))

\* A task cancelled at an await gets asyncio.CancelledError there; it derives
\* from BaseException, so `except Exception` does not catch it.
Cancelled == Raise("CancelledError")

\* _async_update_data with its `except Exception` catching the cancellation
\* too, as it would were CancelledError an Exception.
_async_update_data_catching_cancel(g, fetch_result, old_station_data) ==
    LET ret ==
            IF fetch_result.tag = "raise" THEN PyDict(EmptyDict)
            ELSE IF Truthy(fetch_result)
                 THEN IF g = "sildre" THEN fetch_result
                      ELSE PyDict([k \in {StationId} |-> fetch_result.d])
                 ELSE PyDict(EmptyDict)
    IN  IF g = "sildre"
        THEN IF fetch_result.tag = "raise"
             \* self.station_data = station_data reads a local never bound
             THEN [result |-> Raise("UnboundLocalError"), station_data |-> old_station_data]
             ELSE [result |-> ret, station_data |-> fetch_result]
        ELSE [result |-> ret, station_data |-> old_station_data]

\* _async_update_data, given what _fetch_station_data returned or raised:
\* what it returns or raises itself, and what it leaves in self.station_data.
_async_update_data(g, fetch_result, old_station_data) ==
    IF fetch_result = Cancelled
    THEN [result |-> Cancelled, station_data |-> old_station_data]
    ELSE
    LET ret ==
            IF fetch_result.tag = "raise" THEN PyDict(EmptyDict)
            ELSE IF Truthy(fetch_result)
                 THEN IF g = "sildre" THEN fetch_result
                      ELSE PyDict([k \in {StationId} |-> fetch_result.d])
                 ELSE PyDict(EmptyDict)
    IN  IF g = "sildre"
        THEN IF fetch_result.tag = "raise"
             \* self.station_data = station_data reads a local never bound
             THEN [result |-> Raise("UnboundLocalError"), station_data |-> old_station_data]
             ELSE [result |-> ret, station_data |-> fetch_result]
        ELSE [result |-> ret, station_data |-> old_station_data]

\* DataUpdateCoordinator: the value returned becomes coordinator.data; when the
\* update raises, the previous value stays.
HostPublish(old_data, result) ==
    IF result.tag = "raise" THEN old_data ELSE result

NoCall == [gen |-> "sildre", op |-> "none"]
NoResponse == [kind |-> "none"]
NoFetch == [tick |-> 0, obs |-> PyNone, info |-> PyNone, obs_class |-> "ok",
            info_class |-> "ok", result |-> PyNone,
            obs_resp |-> NoResponse, info_resp |-> NoResponse]
NoHost == [kind |-> "none"]

Init ==
    /\ call = NoCall
    /\ gen \in Generations
    /\ pc = "idle"
    /\ tick = 0
    /\ now = 1
    /\ local = EmptyDict
    /\ data = PyNone
    /\ station_data = PyDict(EmptyDict)
    /\ last_update = NoTime
    /\ outcome = PyNone
    /\ fetched = NoFetch
    /\ host = NoHost

\* The host starts a refresh (first refresh or timer): _async_update_data runs
\* into _fetch_station_data and suspends in the observation fetch.
StartRefresh ==
    /\ pc = "idle"
    /\ tick < MaxTicks
    /\ tick' = tick + 1
    /\ now' = now + 1
    /\ local' = InitialStationData(now')
    /\ pc' = "obs"
    /\ fetched' = [NoFetch EXCEPT !.tick = tick']
    /\ UNCHANGED <<host, call, gen, data, station_data, last_update, outcome>>

\* The observation fetch returns; _fetch_station_data suspends in the
\* station-info fetch.
ObservationsFetched ==
    /\ pc = "obs"
    /\ \E resp \in TickObservationResponses :
          LET result == IF gen = "sildre" THEN get_series_data(resp)
                        ELSE get_water_flow_data(StationId, resp)
          IN  /\ local' = AddSeriesData(gen, local, result)
              /\ fetched' = [fetched EXCEPT !.obs = result, !.obs_class = FetchClass(resp),
                                             !.obs_resp = resp]
    /\ pc' = "info"
    /\ UNCHANGED <<host, call, gen, tick, now, data, station_data, last_update, outcome>>

\* The station-info fetch returns or raises; _fetch_station_data and
\* _async_update_data run to their end and the host takes the result.
StationInfoFetched ==
    /\ pc = "info"
    /\ \E resp \in TickStationResponses :
          LET station_info == get_station_info(gen, resp)
              fetch_result == _fetch_station_data(local, station_info)
              upd == _async_update_data(gen, fetch_result, station_data)
          IN  /\ fetched' = [fetched EXCEPT !.info = station_info,
                                             !.info_class = FetchClass(resp),
                                             !.info_resp = resp,
                                             !.result = fetch_result]
              /\ last_update' = now
              /\ station_data' = upd.station_data
              /\ outcome' = upd.result
              /\ data' = HostPublish(data, upd.result)
    /\ pc' = "idle"
    /\ local' = EmptyDict
    /\ UNCHANGED <<host, call, gen, tick, now>>

Next == StartRefresh \/ ObservationsFetched \/ StationInfoFetched

Spec == Init /\ [][Next]_vars

\* The host cancels the refresh while it is suspended in one of its two
\* fetches: the CancelledError raised at the await leaves the client,
\* _fetch_station_data and _async_update_data without being caught.
CancelRefresh ==
    /\ pc \in {"obs", "info"}
    /\ LET upd == _async_update_data(gen, Cancelled, station_data)
       IN  /\ station_data' = upd.station_data
           /\ outcome' = upd.result
           /\ data' = HostPublish(data, upd.result)
           /\ last_update' = IF upd.result = Cancelled THEN last_update ELSE now
    /\ fetched' = IF pc = "obs" THEN [fetched EXCEPT !.obs_class = "cancelled"]
                  ELSE [fetched EXCEPT !.info_class = "cancelled"]
    /\ pc' = "idle"
    /\ local' = EmptyDict
    /\ UNCHANGED <<host, call, gen, tick, now>>

CancelNext == StartRefresh \/ ObservationsFetched \/ StationInfoFetched \/ CancelRefresh

CancelInit ==
    /\ call = NoCall
    /\ gen \in Generations
    /\ pc = "idle"
    /\ tick = 0
    /\ now = 1
    /\ local = EmptyDict
    /\ data = PyNone
    /\ station_data = PyDict(EmptyDict)
    /\ last_update = NoTime
    /\ outcome = PyNone
    /\ fetched = NoFetch
    /\ host = NoHost

CancelSpec == CancelInit /\ [][CancelNext]_vars

-----------------------------------------------------------------------------
(* Calls of the client on every answer the API can give *)

Called(g, op, resp, result) == [gen |-> g, op |-> op, resp |-> resp, result |-> result]

CallTestConnection ==
    /\ call = NoCall
    /\ \E g \in Generations, resp \in ProbeResponses :
          call' = Called(g, "test_connection", resp, test_connection(resp))
    /\ UNCHANGED <<coordVars, host>>

CallGetSeriesData ==
    /\ call = NoCall
    /\ \E resp \in ObservationResponses :
          call' = Called("sildre", "get_series_data", resp, get_series_data(resp))
    /\ UNCHANGED <<coordVars, host>>

CallGetWaterFlowData ==
    /\ call = NoCall
    /\ \E resp \in ObservationResponses :
          call' = Called("nve_water_flow", "get_water_flow_data", resp,
                         get_water_flow_data(StationId, resp))
    /\ UNCHANGED <<coordVars, host>>

CallGetStationInfo ==
    /\ call = NoCall
    /\ \E g \in Generations, resp \in StationResponses :
          call' = Called(g, "get_station_info", resp, get_station_info(g, resp))
    /\ UNCHANGED <<coordVars, host>>

CallResolveStationName ==
    /\ call = NoCall
    /\ \E resp \in StationResponses :
          call' = Called("nve_water_flow", "resolve_station_name", resp,
                         resolve_station_name(resp))
    /\ UNCHANGED <<coordVars, host>>

ClientNext ==
    \/ CallTestConnection
    \/ CallGetSeriesData
    \/ CallGetWaterFlowData
    \/ CallGetStationInfo
    \/ CallResolveStationName

ClientInit ==
    /\ call = NoCall
    /\ gen = "sildre"
    /\ pc = "idle"
    /\ tick = 0
    /\ now = 1
    /\ local = EmptyDict
    /\ data = PyNone
    /\ station_data = PyDict(EmptyDict)
    /\ last_update = NoTime
    /\ outcome = PyNone
    /\ fetched = NoFetch
    /\ host = NoHost

ClientSpec == ClientInit /\ [][ClientNext]_vars

-----------------------------------------------------------------------------
(* Construction of a coordinator: the scheduling interval *)

UPDATE_INTERVAL_SECONDS == 600
VARIANCE_SECONDS == 30

Timedelta(s) == [tag |-> "timedelta", seconds |-> s]

\* random.randint(a, b): any integer from a to b, both included.
randint(a, b) == a..b

\* The update_interval arguments a caller passes explicitly.
ExplicitIntervals == { Timedelta(s) : s \in {0, 60, 3600} }

\* __init__ with the base interval read as the thirty minutes the comment in
\* const.py speaks of.
CoordinatorIntervalThirtyMinutes(update_interval, variance) ==
    IF update_interval.tag = "None"
    THEN Timedelta(3 * UPDATE_INTERVAL_SECONDS + variance)
    ELSE update_interval

\* __init__ of both coordinators: the interval handed to DataUpdateCoordinator,
\* given the update_interval argument and the value random.randint returned.
CoordinatorInterval(update_interval, variance) ==
    IF update_interval.tag = "None"
    THEN Timedelta(UPDATE_INTERVAL_SECONDS + variance)
    ELSE update_interval

Constructed(g, arg, variance) ==
    [kind |-> "coordinator", gen |-> g, arg |-> arg, variance |-> variance,
     update_interval |-> CoordinatorInterval(arg, variance)]

\* A coordinator is constructed the way async_setup_entry does, without an
\* update_interval: random.randint is called once.
ConstructDefault ==
    /\ host = NoHost
    /\ \E g \in Generations, variance \in randint(-VARIANCE_SECONDS, VARIANCE_SECONDS) :
          host' = Constructed(g, PyNone, variance)
    /\ UNCHANGED <<coordVars, call>>

\* A coordinator is constructed with an explicit update_interval:
\* random.randint is not called (recorded as variance 0).
ConstructExplicit ==
    /\ host = NoHost
    /\ \E g \in Generations, arg \in ExplicitIntervals :
          host' = Constructed(g, arg, 0)
    /\ UNCHANGED <<coordVars, call>>

ConstructNext == ConstructDefault \/ ConstructExplicit

ConstructInit ==
    /\ host = NoHost
    /\ call = NoCall
    /\ gen = "sildre"
    /\ pc = "idle"
    /\ tick = 0
    /\ now = 1
    /\ local = EmptyDict
    /\ data = PyNone
    /\ station_data = PyDict(EmptyDict)
    /\ last_update = NoTime
    /\ outcome = PyNone
    /\ fetched = NoFetch

ConstructSpec == ConstructInit /\ [][ConstructNext]_vars

-----------------------------------------------------------------------------
(* The configuration flow, config_flow.py *)

MaxSubmits == 3      \* forms submitted in one flow

ApiKey == "key"

\* The keys a user can submit.
ApiKeys == {ApiKey, "rotated"}

PyObject == [tag |-> "object"]

\* NVEAPI(...) called with nargs arguments: the sildre client takes
\* (api_key, hass), the nve_water_flow client takes (api_key) only.
NVEAPI_new(g, nargs) ==
    IF nargs = (IF g = "sildre" THEN 2 ELSE 1) THEN PyObject ELSE Raise("TypeError")

\* The except clauses of both steps: the error shown for an exception.
FlowError(raised) ==
    IF raised.exc = "InvalidAPIKey" THEN "invalid_api_key"
    ELSE IF raised.exc = "CannotConnect" THEN "cannot_connect"
    ELSE "unknown"

ShowForm(step, errors) ==
    [type |-> "form", step |-> step, errors |-> errors, entry |-> EmptyDict]

CreateEntry(entry_data) ==
    [type |-> "create_entry", step |-> "station", errors |-> "", entry |-> entry_data]

\* async_step_user with a user_input, the Parameters request answering resp.
async_step_user(g, resp) ==
    LET api == NVEAPI_new(g, 2)
        tested == IF api.tag = "raise" THEN api ELSE test_connection(resp)
    IN  IF tested.tag = "raise"
        THEN ShowForm("user", FlowError(tested))
        ELSE ShowForm("station", "")         \* async_step_station(None)

\* The data of the entry async_step_station creates.
EntryData(g, api_key, station_id, station_info) ==
    IF g = "sildre"
    THEN [api_key |-> api_key, station_id |-> station_id,
          station_name |-> Get(station_info, "station_name", NoneS),
          station_series_list |-> Get(station_info, "series_list", <<>>)]
    ELSE [api_key |-> api_key, station_id |-> station_id,
          station_name |-> Get(station_info, "stationName", station_id)]

\* async_step_station with a user_input, the Stations request answering resp;
\* api_key is what self.api_key holds when the step resumes from that request.
async_step_station(g, api_key, station_id, resp) ==
    IF station_id = "" THEN ShowForm("station", "invalid_station")
    ELSE LET api == NVEAPI_new(g, 2)
             station_info == IF api.tag = "raise" THEN api ELSE get_station_info(g, resp)
         IN  IF station_info.tag = "raise"
             THEN ShowForm("station", FlowError(station_info))
             ELSE IF ~Truthy(station_info)
                  THEN ShowForm("station", "invalid_station")
                  ELSE CreateEntry(EntryData(g, api_key, station_id, station_info.d))

\* What the flow answered last: the step and the key of that submission's
\* client, the station id submitted and the answer its request got.
NoInput == [step |-> "none", api_key |-> NoneS, station_id |-> NoneS,
            resp |-> Http(200, TRUE, EmptyDict)]

\* A flow: the result it returned last (the form shown, or the entry), the
\* submission that result answers, self.api_key, the submissions suspended in
\* their request, and the keys whose test_connection returned True.
Flow(g, result, input, n) ==
    [kind |-> "flow", gen |-> g, type |-> result.type, step |-> result.step,
     errors |-> result.errors, entry |-> result.entry, input |-> input, submits |-> n,
     api_key |-> NoneS, parked |-> <<>>, accepted |-> {}]

\* A step of flow h returns result to the submission input.
Returned(h, result, input) ==
    [h EXCEPT !.type = result.type, !.step = result.step, !.errors = result.errors,
              !.entry = result.entry, !.input = input]

\* A step suspended in the request of its client: the key that client was
\* built with and the station id submitted.
Parked(step, api_key, station_id) ==
    [step |-> step, api_key |-> api_key, station_id |-> station_id]

\* The suspended steps once the i-th has resumed.
Resumed(parked, i) == SubSeq(parked, 1, i - 1) \o SubSeq(parked, i + 1, Len(parked))

\* The user opens the flow: async_step_user(None) shows the credential form.
StartFlow ==
    /\ host = NoHost
    /\ \E g \in Generations : host' = Flow(g, ShowForm("user", ""), NoInput, 0)
    /\ UNCHANGED <<coordVars, call>>

\* The user submits the credential form: async_step_user stores the key in
\* self.api_key and builds the client; the sildre step then suspends in
\* test_connection, the nve_water_flow step ends on the TypeError of NVEAPI(),
\* whatever the API would have answered.
SubmitApiKey ==
    /\ host.kind = "flow"
    /\ host.type = "form" /\ host.step = "user"
    /\ host.submits < MaxSubmits
    /\ \E api_key \in ApiKeys :
          LET stored == [host EXCEPT !.api_key = api_key, !.submits = @ + 1]
          IN  IF NVEAPI_new(host.gen, 2).tag = "raise"
              THEN \E resp \in ProbeResponses :
                      host' = Returned(stored, async_step_user(host.gen, resp),
                                       [step |-> "user", api_key |-> api_key,
                                        station_id |-> NoneS, resp |-> resp])
              ELSE host' = [stored EXCEPT
                               !.parked = Append(@, Parked("user", api_key, NoneS))]
    /\ UNCHANGED <<coordVars, call>>

\* The Parameters request of a suspended credential step is answered: the step
\* resumes, whatever the flow has returned meanwhile, and returns the
\* credential form with an error, or the station form.
ProbeAnswered ==
    /\ host.kind = "flow"
    /\ \E i \in 1..Len(host.parked), resp \in ProbeResponses :
          /\ host.parked[i].step = "user"
          /\ LET sub == host.parked[i]
                 resumed == [host EXCEPT
                                !.parked = Resumed(@, i),
                                !.accepted = IF test_connection(resp).tag = "raise"
                                             THEN @ ELSE @ \cup {sub.api_key}]
             IN  host' = Returned(resumed, async_step_user(host.gen, resp),
                                  [step |-> "user", api_key |-> sub.api_key,
                                   station_id |-> NoneS, resp |-> resp])
    /\ UNCHANGED <<coordVars, call>>

\* The user submits the station form: an empty id is answered at once; for any
\* other the step builds a client with self.api_key and suspends in
\* get_station_info (sildre), or ends on the TypeError (nve_water_flow).
SubmitStation ==
    /\ host.kind = "flow"
    /\ host.type = "form" /\ host.step = "station"
    /\ host.submits < MaxSubmits
    /\ \E station_id \in {"", StationId} :
          LET counted == [host EXCEPT !.submits = @ + 1]
          IN  IF station_id = "" \/ NVEAPI_new(host.gen, 2).tag = "raise"
              THEN host' = Returned(counted,
                                    async_step_station(host.gen, host.api_key,
                                                       station_id, NoResponse),
                                    [step |-> "station", api_key |-> host.api_key,
                                     station_id |-> station_id, resp |-> NoResponse])
              ELSE host' = [counted EXCEPT
                               !.parked = Append(@, Parked("station", host.api_key,
                                                           station_id))]
    /\ UNCHANGED <<coordVars, call>>

\* The Stations request of a suspended station step is answered: the step
\* resumes and shows the station form again, or creates the entry with the key
\* self.api_key holds by now, whatever the flow has returned meanwhile.
StationAnswered ==
    /\ host.kind = "flow"
    /\ \E i \in 1..Len(host.parked), resp \in StationResponses :
          /\ host.parked[i].step = "station"
          /\ LET sub == host.parked[i]
                 resumed == [host EXCEPT !.parked = Resumed(@, i)]
             IN  host' = Returned(resumed,
                                  async_step_station(host.gen, host.api_key,
                                                     sub.station_id, resp),
                                  [step |-> "station", api_key |-> sub.api_key,
                                   station_id |-> sub.station_id, resp |-> resp])
    /\ UNCHANGED <<coordVars, call>>

FlowNext ==
    \/ StartFlow
    \/ SubmitApiKey
    \/ ProbeAnswered
    \/ SubmitStation
    \/ StationAnswered

FlowInit ==
    /\ host = NoHost
    /\ call = NoCall
    /\ gen = "sildre"
    /\ pc = "idle"
    /\ tick = 0
    /\ now = 1
    /\ local = EmptyDict
    /\ data = PyNone
    /\ station_data = PyDict(EmptyDict)
    /\ last_update = NoTime
    /\ outcome = PyNone
    /\ fetched = NoFetch

FlowSpec == FlowInit /\ [][FlowNext]_vars

-----------------------------------------------------------------------------
(* Setting up a configuration entry, __init__.py *)

\* The configuration entries of the host; every entry has its own record in
\* hass.data[DOMAIN], under its entry id.
Entries == {"e1", "e2"}

\* The classes coordinator.py defines.
CoordinatorClasses(g) ==
    IF g = "sildre" THEN {"SildreCoordinator"} ELSE {"NVEWaterFlowCoordinator"}

\* Loading __init__.py: `from .coordinator import NVEWaterFlowCoordinator`.
ImportIntegration(g) ==
    IF "NVEWaterFlowCoordinator" \in CoordinatorClasses(g)
    THEN PyObject
    ELSE Raise("ImportError")

\* The keys async_setup_entry stores under the entry id.
RegistryRecord(g) == IF g = "sildre" THEN {"coordinator"} ELSE {"api", "coordinator"}

\* What a call of async_setup_entry leaves behind: how it ended, the keys of
\* the record under the entry id (none: no record), whether the sensor platform
\* was forwarded, the client's session, and whether a first refresh of the
\* coordinator was awaited.
SetupResult(result, registry, forwarded, session) ==
    [outcome |-> result, registry |-> registry, forwarded |-> forwarded,
     session |-> session, first_refresh |-> FALSE]

\* async_setup_entry, the Parameters request of test_connection answering resp;
\* test_connection fetches the session (_get_session) before it sends the
\* request, so the client holds it however the request ends.
async_setup_entry(g, resp) ==
    LET api == NVEAPI_new(g, 2)
        tested == test_connection(resp)
    IN  IF api.tag = "raise"
        THEN SetupResult(api, {}, FALSE, "none")
        ELSE IF tested.tag = "raise"
             THEN SetupResult(Raise("ConfigEntryNotReady"), {}, FALSE, "attached")
             ELSE SetupResult(PyTrue, RegistryRecord(g), TRUE, "attached")

\* The host sets an entry up: it loads the integration, then calls
\* async_setup_entry.
HostSetupEntry(g, resp) ==
    LET loaded == ImportIntegration(g)
    IN  IF loaded.tag = "raise"
        THEN SetupResult(loaded, {}, FALSE, "none")
        ELSE async_setup_entry(g, resp)

NotLoaded(g) ==
    [gen |-> g, state |-> "not_loaded", resp |-> Http(200, TRUE, EmptyDict),
     setup |-> SetupResult(PyNone, {}, FALSE, "none")]

\* The host sets up entry e of the sildre integration.
SetupSildreEntry ==
    /\ host.kind = "setup"
    /\ \E e \in Entries, resp \in ProbeResponses :
          /\ host.entries[e].gen = "sildre"
          /\ host.entries[e].state = "not_loaded"
          /\ LET setup == HostSetupEntry("sildre", resp)
             IN  host' = [host EXCEPT !.entries[e] =
                     [gen |-> "sildre", resp |-> resp, setup |-> setup,
                      state |-> IF setup.outcome = PyTrue THEN "loaded" ELSE "setup_failed"]]
    /\ UNCHANGED <<coordVars, call>>

\* The host sets up entry e of the nve_water_flow integration.
SetupNVEWaterFlowEntry ==
    /\ host.kind = "setup"
    /\ \E e \in Entries, resp \in ProbeResponses :
          /\ host.entries[e].gen = "nve_water_flow"
          /\ host.entries[e].state = "not_loaded"
          /\ LET setup == HostSetupEntry("nve_water_flow", resp)
             IN  host' = [host EXCEPT !.entries[e] =
                     [gen |-> "nve_water_flow", resp |-> resp, setup |-> setup,
                      state |-> IF setup.outcome = PyTrue THEN "loaded" ELSE "setup_failed"]]
    /\ UNCHANGED <<coordVars, call>>

SetupNext == SetupSildreEntry \/ SetupNVEWaterFlowEntry

SetupInit ==
    /\ host \in { [kind |-> "setup", entries |-> [e \in Entries |-> NotLoaded(f[e])]] :
                      f \in [Entries -> Generations] }
    /\ call = NoCall
    /\ gen = "sildre"
    /\ pc = "idle"
    /\ tick = 0
    /\ now = 1
    /\ local = EmptyDict
    /\ data = PyNone
    /\ station_data = PyDict(EmptyDict)
    /\ last_update = NoTime
    /\ outcome = PyNone
    /\ fetched = NoFetch

SetupSpec == SetupInit /\ [][SetupNext]_vars

-----------------------------------------------------------------------------
(* Unloading a configuration entry, __init__.py *)

\* NVEAPI.close on a client whose session is `session`.
NVEAPI_close(g, session) ==
    IF g = "sildre" THEN "none"                      \* self.session = None
    ELSE IF session = "attached" THEN "closed"       \* await self.session.close()
    ELSE session

\* async_unload_entry returns result.
UnloadReturns(entry, result) ==
    [entry EXCEPT !.pending = "none",
                  !.unload = result,
                  !.state = IF result = PyTrue THEN "unloaded" ELSE "unload_failed"]

\* The body of `if unload_ok:` in async_unload_entry: sildre pops the record
\* and returns; nve_water_flow suspends in api.close() with the record still
\* stored.
UnloadOk(g, entry) ==
    IF entry.registry = {}                           \* entry_id not in hass.data[DOMAIN]
    THEN UnloadReturns(entry, PyTrue)
    ELSE IF g = "sildre"
         THEN UnloadReturns([entry EXCEPT !.registry = {}], PyTrue)
         ELSE [entry EXCEPT !.pending = "close"]

\* async_unload_entry from the return of async_unload_platforms (the platforms
\* unloaded: True, refused: False, or the call raised) to its own return or to
\* its next suspension.
async_unload_entry(g, platforms, entry) ==
    IF platforms = "raised"
    THEN UnloadReturns(entry, Raise("HomeAssistantError"))
    ELSE IF platforms = "refused"
         THEN UnloadReturns(entry, PyFalse)
         ELSE UnloadOk(g, entry)

\* async_unload_entry of nve_water_flow from the return of api.close().
async_unload_entry_closed(g, entry) ==
    UnloadReturns([entry EXCEPT !.session = NVEAPI_close(g, @), !.registry = {}],
                  PyTrue)

-----------------------------------------------------------------------------
(* The sensors, sensor.py *)

\* A JSON scalar as a Python value.
PyScalar(s) == IF s = NoneS THEN PyNone ELSE [tag |-> "scalar", s |-> s]

\* datetime.fromisoformat(time_str.replace("Z", "+00:00")), as the last-update
\* sensor of nve_water_flow applies it: the timezone-aware instant, written as
\* Python prints it.
fromisoformat(time_str) ==
    CASE time_str = "2024-01-01T09:00:00Z" -> "2024-01-01 09:00:00+00:00"
      [] time_str = "2024-01-01T10:00:00Z" -> "2024-01-01 10:00:00+00:00"

\* The parameter ids a measurement sensor can be created for.
SensorParameterIds == { str(ParameterIds[i]) : i \in 1..Len(ParameterIds) }

\* The first element of series_data recorded for parameter_id, or None.
RECURSIVE FirstForParameter(_, _)
FirstForParameter(series_data, parameter_id) ==
    IF series_data = <<>> THEN PyNone
    ELSE IF str(Head(series_data).parameter) = parameter_id THEN PyDict(Head(series_data))
    ELSE FirstForParameter(Tail(series_data), parameter_id)

\* SildreCoordinator.get_data_for_parameter: it reads self.station_data.
get_data_for_parameter(sd, parameter_id) ==
    IF ~Truthy(sd) THEN PyNone
    ELSE FirstForParameter(Get(sd.d, "series_data", <<>>), parameter_id)

\* SildreMeasurementSensor.native_value.
native_value(coordinator_data, sd, parameter_id) ==
    IF ~Truthy(coordinator_data) THEN PyNone
    ELSE LET parameter == get_data_for_parameter(sd, parameter_id) IN
         IF ~Truthy(parameter) THEN PyNone
         ELSE PyScalar(Get(parameter.d, "value", NoneS))

\* SildreMeasurementSensor.extra_state_attributes (the parameter name and the
\* unit, fixed at construction, are left out).
extra_state_attributes(coordinator_data, sd, parameter_id) ==
    IF ~Truthy(coordinator_data) THEN PyDict(EmptyDict)
    ELSE LET parameter == get_data_for_parameter(sd, parameter_id)
             station_data_ == coordinator_data.d
         IN  IF parameter.tag = "None"
             THEN Raise("AttributeError")          \* parameter.get("time") on None
             ELSE PyDict([attribution      |-> "Data provided by NVE Hydrological API",
                          station_name     |-> Get(station_data_, "station_name", NoneS),
                          station_id       |-> Get(station_data_, "station_id", NoneS),
                          parameter_id     |-> parameter_id,
                          last_update      |-> Get(station_data_, "last_update", NoTime),
                          observation_time |-> Get(parameter.d, "time", NoneS)])

-----------------------------------------------------------------------------
(* The requests the client sends, nve_api.py *)

MaxRequests == 4     \* requests sent by one client

\* The station series lists a sildre entry can be configured with.
ConfiguredSeriesLists ==
    { <<>>,
      << [parameter_name |-> "Vannforing", parameter |-> "1001", unit |-> "m3/s"] >>,
      << [parameter_name |-> "Vannforing", parameter |-> "1001", unit |-> "m3/s"],
         [parameter_name |-> "Vannstand", parameter |-> "1000", unit |-> "m"] >> }

RECURSIVE Join(_, _)

\* Join keeping the first element only.
JoinFirstOnly(l, sep) == IF l = <<>> THEN "" ELSE l[1]

\* Python's sep.join(l) on a list of strings.
Join(l, sep) ==
    IF l = <<>> THEN ""
    ELSE IF Len(l) = 1 THEN l[1]
    ELSE l[1] \o sep \o Join(Tail(l), sep)

NoSession == [state |-> "none", headers |-> EmptyDict, owner |-> "none"]

\* NVEAPI.__init__: sildre builds its headers once, nve_water_flow has none.
NVEAPI_init(g, api_key) ==
    [api_key |-> api_key,
     session |-> NoSession,
     headers |-> IF g = "sildre"
                 THEN ("X-API-Key" :> api_key)
                      @@ ("User-Agent" :> "home-assistant-sildre/1.0.0 https://github.com/toringer/home-assistant-sildre")
                 ELSE EmptyDict]

\* NewSession creating the nve_water_flow session without default headers.
NewSessionBare(g, api) ==
    IF g = "sildre" THEN [state |-> "open", headers |-> EmptyDict, owner |-> "hass"]
    ELSE [state |-> "open", headers |-> EmptyDict, owner |-> "client"]

\* The session _get_session obtains: Home Assistant's shared one in sildre, a
\* new aiohttp.ClientSession carrying the key in nve_water_flow.
NewSession(g, api) ==
    IF g = "sildre" THEN [state |-> "open", headers |-> EmptyDict, owner |-> "hass"]
    ELSE [state |-> "open", headers |-> ("X-API-Key" :> api.api_key), owner |-> "client"]

\* NVEAPI._get_session: the client after the call; its session is the result.
_get_session(g, api) ==
    IF api.session.state \in {"none", "closed"}
    THEN [api EXCEPT !.session = NewSession(g, api)]
    ELSE api

\* NVEAPI.close.
close(g, api) ==
    IF g = "sildre" THEN [api EXCEPT !.session = NoSession]
    ELSE IF api.session.state = "open" THEN [api EXCEPT !.session.state = "closed"]
    ELSE api

\* session.get(url, params=..., headers=...): the request that goes out, its
\* headers those of the call over the defaults of the session.
SessionGet(session, endpoint, params, headers) ==
    [endpoint |-> endpoint, params |-> params, headers |-> headers @@ session.headers]

\* The headers= argument of the calls: self.headers in sildre, none in nve_water_flow.
HeadersArgument(g, api) == IF g = "sildre" THEN api.headers ELSE EmptyDict

\* The request test_connection sends.
test_connection_request(g, api) ==
    SessionGet(_get_session(g, api).session, "Parameters", EmptyDict, HeadersArgument(g, api))

\* The request get_series_data (sildre) or get_water_flow_data (nve_water_flow) sends.
observations_request(g, api, station_id, parameters) ==
    SessionGet(_get_session(g, api).session, "Observations",
               [StationId |-> station_id,
                Parameter |-> IF g = "sildre" THEN Join(parameters, ",")
                              ELSE str(WATER_FLOW_PARAMETER_ID),
                ResolutionTime |-> "0"],
               HeadersArgument(g, api))

\* The request get_station_info sends.
station_info_request(g, api, station_id) ==
    SessionGet(_get_session(g, api).session, "Stations", [StationId |-> station_id],
               HeadersArgument(g, api))

\* The request resolve_station_name (nve_water_flow) sends.
resolve_station_name_request(g, api, station_name) ==
    SessionGet(_get_session(g, api).session, "Stations", [StationName |-> station_name],
               HeadersArgument(g, api))

\* _fetch_station_data: the parameter ids it asks for.
parameter_ids(station_series_list) ==
    [i \in 1..Len(station_series_list) |-> station_series_list[i].parameter]

NoRequest == [endpoint |-> "none", params |-> EmptyDict, headers |-> EmptyDict]

\* A client and the coordinator that drives it.  key is the key the client was
\* constructed with; sent counts the requests, sessions the sessions obtained;
\* tick_requests lists the requests of the tick in flight or just finished.
Wire(g, key, l) ==
    [kind |-> "wire", gen |-> g, key |-> key, api |-> NVEAPI_init(g, key),
     station_series_list |-> l, pc |-> "idle", ticks |-> 0, obs |-> "none",
     tick_requests |-> <<>>, last |-> NoRequest, sent |-> 0, sessions |-> 0, closes |-> 0]

\* The client sends req through the session of _get_session.
Sent(h, req) ==
    [h EXCEPT !.api = _get_session(h.gen, h.api),
              !.sessions = IF h.api.session.state = "open" THEN @ ELSE @ + 1,
              !.last = req,
              !.sent = @ + 1]

Wired == host.kind = "wire" /\ call = NoCall
CanSend == Wired /\ host.sent < MaxRequests

\* test_connection sends its probe.
WireTestConnection ==
    /\ CanSend
    /\ host.pc = "idle"
    /\ host' = Sent(host, test_connection_request(host.gen, host.api))
    /\ UNCHANGED <<call, coordVars>>

\* resolve_station_name sends its lookup by name.
WireResolveStationName ==
    /\ CanSend
    /\ host.gen = "nve_water_flow"
    /\ host.pc = "idle"
    /\ host' = Sent(host, resolve_station_name_request(host.gen, host.api, StationName))
    /\ UNCHANGED <<call, coordVars>>

\* A refresh starts: _fetch_station_data calls the observation fetch.
WireStartTick ==
    /\ CanSend
    /\ host.pc = "idle"
    /\ LET req == observations_request(host.gen, host.api, StationId,
                                       parameter_ids(host.station_series_list))
       IN  host' = [Sent(host, req) EXCEPT !.pc = "obs", !.obs = "none", !.tick_requests = <<req>>]
    /\ UNCHANGED <<call, coordVars>>

\* The observation fetch returns data or nothing; _fetch_station_data calls
\* the station-info fetch.
WireObservationsAnswered ==
    /\ CanSend
    /\ host.pc = "obs"
    /\ \E result \in {"data", "nothing"} :
          LET req == station_info_request(host.gen, host.api, StationId)
          IN  host' = [Sent(host, req) EXCEPT !.pc = "info", !.obs = result,
                                               !.tick_requests = Append(@, req)]
    /\ UNCHANGED <<call, coordVars>>

\* The station-info fetch returns or raises: the tick ends.
WireStationInfoAnswered ==
    /\ Wired
    /\ host.pc = "info"
    /\ host' = [host EXCEPT !.pc = "idle", !.ticks = @ + 1]
    /\ UNCHANGED <<call, coordVars>>

\* close() is called, between two requests or while a tick waits for an answer.
WireClose ==
    /\ Wired
    /\ host.closes < MaxRequests
    /\ host' = [host EXCEPT !.api = close(host.gen, host.api), !.closes = @ + 1]
    /\ UNCHANGED <<call, coordVars>>

WireNext ==
    \/ WireTestConnection
    \/ WireResolveStationName
    \/ WireStartTick
    \/ WireObservationsAnswered
    \/ WireStationInfoAnswered
    \/ WireClose

WireInit ==
    /\ call = NoCall
    /\ gen \in Generations
    /\ pc = "idle"
    /\ tick = 0
    /\ now = 1
    /\ local = EmptyDict
    /\ data = PyNone
    /\ station_data = PyDict(EmptyDict)
    /\ last_update = NoTime
    /\ outcome = PyNone
    /\ fetched = NoFetch
    /\ \E key \in ApiKeys, l \in ConfiguredSeriesLists : host = Wire(gen, key, l)

WireSpec == WireInit /\ [][WireNext]_vars

-----------------------------------------------------------------------------
(* Several entries set up and unloaded side by side, __init__.py *)

\* An entry the host has not set up: no record under its id, no client, no
\* call of async_unload_entry under way.
UnloadedEntry(g) ==
    [gen |-> g, state |-> "not_loaded", registry |-> {}, session |-> "none",
     pending |-> "none", unload |-> PyNone]

\* The entry after the host called async_setup_entry for it.
EntryAfterSetup(entry, setup) ==
    [entry EXCEPT !.state = IF setup.outcome = PyTrue THEN "loaded" ELSE "setup_failed",
                  !.registry = setup.registry,
                  !.session = setup.session,
                  !.unload = PyNone]

\* The host sets up an entry that is not loaded (first setup, retry, reload).
LifecycleSetupEntry ==
    /\ host.kind = "lifecycle"
    /\ \E e \in Entries, resp \in ProbeResponses :
          /\ host.entries[e].state \in {"not_loaded", "setup_failed", "unloaded"}
          /\ host' = [host EXCEPT !.entries[e] =
                          EntryAfterSetup(@, HostSetupEntry(host.entries[e].gen, resp))]
    /\ UNCHANGED <<coordVars, call>>

\* The host unloads a loaded entry, or tries again after a failed unload:
\* async_unload_entry suspends in async_unload_platforms.
LifecycleUnloadEntry ==
    /\ host.kind = "lifecycle"
    /\ \E e \in Entries :
          /\ host.entries[e].state \in {"loaded", "unload_failed"}
          /\ host.entries[e].pending = "none"
          /\ host' = [host EXCEPT !.entries[e].pending = "platforms",
                                  !.entries[e].unload = PyNone]
    /\ UNCHANGED <<coordVars, call>>

\* async_unload_platforms returns to a suspended async_unload_entry.
UnloadPlatformsReturned ==
    /\ host.kind = "lifecycle"
    /\ \E e \in Entries, platforms \in {"unloaded", "refused", "raised"} :
          /\ host.entries[e].pending = "platforms"
          /\ host' = [host EXCEPT !.entries[e] =
                          async_unload_entry(host.entries[e].gen, platforms, @)]
    /\ UNCHANGED <<coordVars, call>>

\* api.close() returns to a suspended async_unload_entry.
CloseReturned ==
    /\ host.kind = "lifecycle"
    /\ \E e \in Entries :
          /\ host.entries[e].pending = "close"
          /\ host' = [host EXCEPT !.entries[e] =
                          async_unload_entry_closed(host.entries[e].gen, @)]
    /\ UNCHANGED <<coordVars, call>>

LifecycleNext ==
    \/ LifecycleSetupEntry
    \/ LifecycleUnloadEntry
    \/ UnloadPlatformsReturned
    \/ CloseReturned

\* No entry has been set up when the host starts.
LifecycleInit ==
    /\ host \in { [kind |-> "lifecycle", entries |-> [e \in Entries |-> UnloadedEntry(f[e])]] :
                      f \in [Entries -> Generations] }
    /\ call = NoCall
    /\ gen = "sildre"
    /\ pc = "idle"
    /\ tick = 0
    /\ now = 1
    /\ local = EmptyDict
    /\ data = PyNone
    /\ station_data = PyDict(EmptyDict)
    /\ last_update = NoTime
    /\ outcome = PyNone
    /\ fetched = NoFetch

LifecycleSpec == LifecycleInit /\ [][LifecycleNext]_vars

-----------------------------------------------------------------------------
(* Properties of the client *)

Ok200(resp) == resp.kind = "http" /\ resp.status = 200 /\ resp.json_ok

HasData(resp) == Ok200(resp) /\ "data" \in DOMAIN resp.body

Range(f) == { f[i] : i \in DOMAIN f }

\* C1: test_connection returns success iff the probe answers 200, raises
\* InvalidAPIKey iff it answers 401, raises CannotConnect for every other
\* status and for every network-level error (a timeout included), and ends
\* in no other way.
C1_TestConnectionClassifiesEveryOutcome ==
    call.op = "test_connection" =>
        LET resp == call.resp
            r == call.result
        IN  /\ (r = PyTrue) <=> (resp.kind = "http" /\ resp.status = 200)
            /\ (r = Raise("InvalidAPIKey")) <=> (resp.kind = "http" /\ resp.status = 401)
            /\ (resp.kind = "http" /\ resp.status \notin {200, 401}) => r = Raise("CannotConnect")
            /\ (resp.kind = "error") => r = Raise("CannotConnect")
            /\ r \in {PyTrue, Raise("InvalidAPIKey"), Raise("CannotConnect")}

\* The series of an answer whose observations array is non-empty.
NonEmptySeries(resp) ==
    { i \in 1..Len(resp.body.data) : Get(resp.body.data[i], "observations", <<>>) # <<>> }

\* The four fields of the last observation of a series.
LastOf(series) ==
    LET last == series.observations[Len(series.observations)]
    IN  [time |-> Get(last, "time", NoneS), value |-> Get(last, "value", NoneS),
         quality |-> Get(last, "quality", NoneS), correction |-> Get(last, "correction", NoneS)]

FieldsOf(rec) ==
    [time |-> rec.time, value |-> rec.value, quality |-> rec.quality, correction |-> rec.correction]

\* The result carries, for this series, its last observation and no other.
SurfacesLast(op, result, series) ==
    IF op = "get_series_data"
    THEN /\ result.tag = "list"
         /\ \E j \in 1..Len(result.items) : result.items[j].parameter = series.parameter
         /\ \A j \in 1..Len(result.items) :
                result.items[j].parameter = series.parameter
                    => FieldsOf(result.items[j]) = LastOf(series)
    ELSE /\ result.tag = "dict"
         /\ result.d.parameter_name = series.parameterName
         /\ FieldsOf(result.d) = LastOf(series)

\* C7 as claimed: for every series of an observations answer whose array is
\* non-empty, get_series_data and get_water_flow_data surface exactly its last
\* element.
C7_EverySeriesSurfacesItsLast ==
    (call.op \in {"get_series_data", "get_water_flow_data"} /\ HasData(call.resp)) =>
        \A i \in NonEmptySeries(call.resp) :
            SurfacesLast(call.op, call.result, call.resp.body.data[i])

\* C7, amended: get_series_data surfaces exactly the last element of every
\* series whose array is non-empty, one record per such series;
\* get_water_flow_data looks at the first series of the answer only: it
\* surfaces the last element of that series, or nothing when its array is empty.
C7_LastObservationSurfaced ==
    /\ (call.op = "get_series_data" /\ HasData(call.resp)) =>
            /\ \A i \in NonEmptySeries(call.resp) :
                   SurfacesLast(call.op, call.result, call.resp.body.data[i])
            /\ Len(call.result.items) = Cardinality(NonEmptySeries(call.resp))
    /\ (call.op = "get_water_flow_data" /\ HasData(call.resp)) =>
            IF 1 \in NonEmptySeries(call.resp)
            THEN SurfacesLast(call.op, call.result, call.resp.body.data[1])
            ELSE call.result = PyNone

\* C7 witness: a series of two different observations, the second surfaced.
C7_Witness ==
    /\ call.op = "get_series_data"
    /\ HasData(call.resp)
    /\ \E i \in NonEmptySeries(call.resp) :
          LET o == call.resp.body.data[i].observations
          IN  /\ Len(o) >= 2
              /\ o[1] # o[Len(o)]
              /\ SurfacesLast(call.op, call.result, call.resp.body.data[i])

\* The j-th series, in the order of the answer, among those with observations.
NthNonEmpty(resp, j) ==
    CHOOSE i \in NonEmptySeries(resp) :
        Cardinality({ k \in NonEmptySeries(resp) : k <= i }) = j

\* C25: missing observations are a soft result: get_series_data returns one
\* record for each series of the answer that has observations, in the order of
\* the answer, skipping the series that have none, and an empty list when the
\* answer has no series; get_water_flow_data returns None when the answer has
\* no series or its first series has no observations; neither raises.
C25_MissingObservationsAreSoft ==
    /\ call.op \in {"get_series_data", "get_water_flow_data"} => call.result.tag # "raise"
    /\ (call.op = "get_series_data" /\ Ok200(call.resp)) =>
           /\ call.result.tag = "list"
           /\ ~HasData(call.resp) => call.result.items = <<>>
           /\ HasData(call.resp) =>
                  /\ Len(call.result.items) = Cardinality(NonEmptySeries(call.resp))
                  /\ \A j \in 1..Len(call.result.items) :
                         LET series == call.resp.body.data[NthNonEmpty(call.resp, j)]
                         IN  /\ call.result.items[j].parameter = series.parameter
                             /\ FieldsOf(call.result.items[j]) = LastOf(series)
    /\ (call.op = "get_water_flow_data" /\ Ok200(call.resp)
            /\ (~HasData(call.resp) \/ 1 \notin NonEmptySeries(call.resp))) =>
           call.result = PyNone

\* C25 witness: the first series of the answer had no observations and the
\* second had some; the one record returned is the second's.
C25_Witness ==
    /\ call.op = "get_series_data"
    /\ HasData(call.resp)
    /\ NonEmptySeries(call.resp) = {2}
    /\ call.result.tag = "list"
    /\ Len(call.result.items) = 1
    /\ call.result.items[1].parameter = call.resp.body.data[2].parameter

\* C8: a station-info answer with status 200 and an empty data array makes
\* get_station_info return None; it raises nothing.
C8_EmptyStationListIsAbsent ==
    (/\ call.op = "get_station_info"
     /\ HasData(call.resp)
     /\ call.resp.body.data = <<>>) => call.result = PyNone

\* C8 witness: the sildre client was given such an answer and returned None.
C8_Witness ==
    /\ call.op = "get_station_info"
    /\ call.gen = "sildre"
    /\ HasData(call.resp)
    /\ call.resp.body.data = <<>>
    /\ call.result = PyNone

\* C9: in every generation get_station_info raises InvalidAPIKey when the
\* Stations endpoint answers 401.
C9_UnauthorizedStationInfoRaises ==
    (/\ call.op = "get_station_info"
     /\ call.resp.kind = "http"
     /\ call.resp.status = 401) => call.result = Raise("InvalidAPIKey")

\* C10 as claimed: with one or more matches resolve_station_name returns the
\* stationId of the first (and warns when there are several); with none it
\* returns None.
C10_ResolveReturnsFirstId ==
    (call.op = "resolve_station_name" /\ HasData(call.resp)) =>
        LET stations == call.resp.body.data
        IN  /\ Len(stations) >= 1 =>
                   /\ call.result.tag = "str"
                   /\ call.result.s = Get(stations[1], "stationId", NoneS)
            /\ Len(stations) >= 2 => "warning" \in Range(call.result.log)
            /\ Len(stations) = 0 => call.result.tag = "None"

\* C10, amended: with one or more matches resolve_station_name returns the
\* stationId of the first when that station carries a non-empty stationId,
\* and None when it does not (and warns when there are several matches);
\* with no match it returns None; it never raises.
C10_ResolveReturnsFirstUsableId ==
    call.op = "resolve_station_name" =>
        /\ call.result.tag \in {"str", "None"}
        /\ HasData(call.resp) =>
               LET stations == call.resp.body.data
                   first_id == Get(stations[1], "stationId", NoneS)
               IN  /\ (Len(stations) >= 1 /\ TruthyS(first_id)) =>
                          /\ call.result.tag = "str"
                          /\ call.result.s = first_id
                   /\ (Len(stations) >= 1 /\ ~TruthyS(first_id)) => call.result.tag = "None"
                   /\ Len(stations) >= 2 => "warning" \in Range(call.result.log)
                   /\ Len(stations) = 0 => call.result.tag = "None"

\* C10 witness: two matches with different ids, the first returned, a warning logged.
C10_Witness ==
    /\ call.op = "resolve_station_name"
    /\ HasData(call.resp)
    /\ Len(call.resp.body.data) = 2
    /\ TruthyS(Get(call.resp.body.data[1], "stationId", NoneS))
    /\ TruthyS(Get(call.resp.body.data[2], "stationId", NoneS))
    /\ Get(call.resp.body.data[1], "stationId", NoneS) # Get(call.resp.body.data[2], "stationId", NoneS)
    /\ call.result.tag = "str"
    /\ call.result.s = Get(call.resp.body.data[1], "stationId", NoneS)
    /\ "warning" \in Range(call.result.log)

-----------------------------------------------------------------------------
(* Properties of the coordinator *)

\* No refresh is in flight and at least one has finished: fetched describes it.
TickDone == pc = "idle" /\ tick > 0

\* The step that finishes a refresh tick.
TickEnds == pc = "info" /\ pc' = "idle"

\* The tick that just finished failed: a fetch raised or got a status other
\* than 200, or both fetches returned nothing.
TickFailed ==
    \/ fetched.obs_class \in {"raised", "non200"}
    \/ fetched.info_class \in {"raised", "non200"}
    \/ fetched.info.tag = "raise"
    \/ (~Truthy(fetched.obs) /\ ~Truthy(fetched.info))

\* Both fetches of the tick that just finished returned nothing.
BothFetchesEmpty ==
    /\ ~Truthy(fetched.obs)
    /\ fetched.info.tag # "raise"
    /\ ~Truthy(fetched.info)

DataKeys == {"series_data", "water_flow_data", "culq_data"}

\* The published value holds a snapshot with observations or flood statistics.
GoodSnapshot(g, v) == DOMAIN SnapshotOf(g, v) \cap DataKeys # {}

\* C2: a tick that fails while a non-empty snapshot is published leaves
\* coordinator.data (and, in sildre, coordinator.station_data) as it was.
C2_FailedTickKeepsSnapshot ==
    [][ (TickEnds /\ GoodSnapshot(gen, data) /\ TickFailed') =>
            /\ data' = data
            /\ gen = "sildre" => station_data' = station_data ]_vars

\* C3: when both fetches of a tick yield nothing, _fetch_station_data returns
\* None; no snapshot holding only station id, station name and timestamp is
\* returned or published.
C3_NoBareSnapshot ==
    /\ (TickDone /\ BothFetchesEmpty) => fetched.result = PyNone
    /\ \A v \in {data, station_data, fetched.result} :
          (v.tag = "dict" /\ DOMAIN SnapshotOf(gen, v) # {})
              => DOMAIN SnapshotOf(gen, v) \cap DataKeys # {}

\* C4: _async_update_data never raises, whatever the two client calls do.
C4_NoFailureEscapes == outcome.tag # "raise"

\* The snapshot in value v holds exactly what the two fetches recorded in f
\* returned, and the timestamp t.
SnapshotFromTick(g, v, f, t) ==
    LET s == SnapshotOf(g, v)
        obs_key == IF g = "sildre" THEN "series_data" ELSE "water_flow_data"
    IN  Truthy(v) =>
            /\ s.last_update = t
            /\ obs_key \in DOMAIN s <=> Truthy(f.obs)
            /\ obs_key \in DOMAIN s =>
                   s[obs_key] = IF g = "sildre" THEN f.obs.items ELSE f.obs.d
            /\ "culq_data" \in DOMAIN s =>
                   /\ Truthy(f.info)
                   /\ \A k \in DOMAIN s.culq_data :
                          k \in DOMAIN f.info.d /\ s.culq_data[k] = f.info.d[k]

\* C5: every published snapshot is self-consistent: whenever coordinator.data
\* or coordinator.station_data changes, the observations and the flood
\* statistics of the new snapshot are those the two fetches of the tick that
\* just finished returned, stamped with that tick's time.
C5_SnapshotFromOneTick ==
    [][ /\ data' # data => SnapshotFromTick(gen, data', fetched', now)
        /\ station_data' # station_data => SnapshotFromTick(gen, station_data', fetched', now)
      ]_vars

\* C5 witness: a later tick whose station-info fetch gave nothing published
\* its observations without flood statistics.
C5_Witness ==
    /\ TickDone
    /\ tick >= 2
    /\ gen = "sildre"
    /\ Truthy(fetched.obs)
    /\ ~Truthy(fetched.info)
    /\ SnapshotOf(gen, data).last_update = now
    /\ "series_data" \in DOMAIN SnapshotOf(gen, data)
    /\ "culq_data" \notin DOMAIN SnapshotOf(gen, data)

-----------------------------------------------------------------------------
(* Properties of the construction *)

\* C11 as claimed: every constructed coordinator, however it is constructed,
\* has an interval of a whole number of seconds between 570 and 630.
C11_EveryIntervalWithinJitter ==
    host.kind = "coordinator" => host.update_interval.seconds \in 570..630

\* C11, amended: a coordinator constructed without an update_interval has an
\* interval of 600 seconds plus the variance drawn, between 570 and 630
\* seconds; an explicit update_interval is used as given.
C11_DefaultIntervalWithinJitter ==
    host.kind = "coordinator" =>
        /\ host.arg = PyNone =>
               /\ host.update_interval.seconds = 600 + host.variance
               /\ host.update_interval.seconds \in 570..630
        /\ host.arg # PyNone => host.update_interval = host.arg

\* C11 witness: the largest variance gives the upper end of the range.
C11_Witness ==
    /\ host.kind = "coordinator"
    /\ host.arg = PyNone
    /\ host.variance = 30
    /\ host.update_interval.seconds = 630

-----------------------------------------------------------------------------
(* Properties of the configuration flow *)

\* The form just submitted was the one of this step.
Submitted(step) == host.kind = "flow" /\ host.input.step = step

\* C16: in the credential step the outcome of test_connection decides the
\* result: InvalidAPIKey shows the form again with invalid_api_key,
\* CannotConnect with cannot_connect, any other exception with unknown, and
\* success alone shows the station form; no failure advances or creates an
\* entry.
C16_CredentialStepFollowsTestConnection ==
    Submitted("user") =>
        LET tested == test_connection(host.input.resp)
        IN  /\ host.type = "form"
            /\ tested.tag # "raise" => host.step = "station" /\ host.errors = ""
            /\ tested.tag = "raise" =>
                   /\ host.step = "user"
                   /\ host.errors =
                         CASE tested.exc = "InvalidAPIKey" -> "invalid_api_key"
                           [] tested.exc = "CannotConnect" -> "cannot_connect"
                           [] OTHER -> "unknown"

\* The Stations request met a network error or a status other than 200 and 401.
ConnectionFailure(resp) ==
    \/ resp.kind = "error"
    \/ resp.kind = "http" /\ resp.status \notin {200, 401}

\* C17: in the station step a station lookup that meets a network error or a
\* status other than 200 and 401 shows the form with cannot_connect, not
\* invalid_station, and creates no entry.
C17_StationStepReportsCannotConnect ==
    (/\ Submitted("station")
     /\ host.input.station_id # ""
     /\ ConnectionFailure(host.input.resp)) =>
        /\ host.type = "form"
        /\ host.errors = "cannot_connect"

-----------------------------------------------------------------------------
(* Properties of the setup of an entry *)

\* C15: when test_connection fails during async_setup_entry, setup ends with
\* ConfigEntryNotReady, nothing is stored under the entry id and the sensor
\* platform is not forwarded; a record exists under an entry id only if the
\* entry's connection test succeeded.
C15_FailedConnectionTestAbortsSetup ==
    \A e \in Entries :
        LET entry == host.entries[e]
            tested == test_connection(entry.resp)
        IN  /\ (entry.state # "not_loaded" /\ tested.tag = "raise") =>
                   /\ entry.setup.outcome = Raise("ConfigEntryNotReady")
                   /\ entry.setup.registry = {}
                   /\ ~entry.setup.forwarded
            /\ entry.setup.registry # {} => tested.tag # "raise"

\* C18: setting an entry up performs the coordinator's first refresh as part
\* of setup: once the host has set up an entry whose connection test passes,
\* the first refresh has run.
C18_SetupPerformsFirstRefresh ==
    \A e \in Entries :
        LET entry == host.entries[e]
        IN  (entry.state # "not_loaded" /\ test_connection(entry.resp).tag # "raise") =>
                /\ entry.state = "loaded"
                /\ entry.setup.first_refresh

-----------------------------------------------------------------------------
(* Properties of the coordinator: cancellation, first refresh, timestamp *)

\* The step that ends a refresh by cancellation.
RefreshCancelled ==
    /\ pc \in {"obs", "info"}
    /\ pc' = "idle"
    /\ "cancelled" \in {fetched'.obs_class, fetched'.info_class}

\* C14: a refresh cancelled while suspended in the observation fetch or in
\* the station-info fetch leaves coordinator.data, coordinator.station_data
\* and the last-refresh timestamp exactly as they were; nothing of the
\* snapshot under construction is published.
C14_CancelledRefreshKeepsSnapshot ==
    [][ RefreshCancelled =>
            /\ data' = data
            /\ station_data' = station_data
            /\ last_update' = last_update ]_vars

\* C14 witness: the second refresh was cancelled in its station-info fetch,
\* after its observation fetch had returned data; the snapshot published is
\* still the one of the first refresh.
C14_Witness ==
    /\ pc = "idle"
    /\ tick = 2
    /\ fetched.info_class = "cancelled"
    /\ Truthy(fetched.obs)
    /\ outcome = Cancelled
    /\ GoodSnapshot(gen, data)
    /\ SnapshotOf(gen, data).last_update < now
    /\ last_update < now

\* C19: a first refresh in which no fetch produced data leaves the
\* coordinator without a published snapshot; after the first refresh the
\* coordinator holds a snapshot only if one of its fetches produced data.
C19_FailedFirstRefreshPublishesNothing ==
    (TickDone /\ tick = 1) =>
        (DOMAIN SnapshotOf(gen, data) # {} =>
            \/ Truthy(fetched.obs)
            \/ fetched.info.tag # "raise" /\ Truthy(fetched.info))

\* C20: a failed tick leaves the last-refresh timestamp unchanged.
C20_FailedTickKeepsTimestamp ==
    [][ (TickEnds /\ TickFailed') => last_update' = last_update ]_vars

-----------------------------------------------------------------------------
(* Properties of the coordinator: the end-to-end scenario *)

\* The observation records of a snapshot.
ObservationRecords(g, s) ==
    IF g = "sildre" THEN Get(s, "series_data", <<>>)
    ELSE IF "water_flow_data" \in DOMAIN s THEN <<s.water_flow_data>> ELSE <<>>

\* The tick that just finished got the answers of the scenario: one discharge
\* series whose observations end with 12.3 at 10:00Z, and a station with the
\* flood statistics 8.0, 40.0 and 120.0.
ScenarioAnswered ==
    /\ TickDone
    /\ fetched.obs_resp.kind = "http" /\ HasData(fetched.obs_resp)
    /\ LET series_data == fetched.obs_resp.body.data IN
          /\ Len(series_data) = 1
          /\ series_data[1].parameter = WATER_FLOW_PARAMETER_ID
          /\ Get(series_data[1], "unit", NoneS) = "m3/s"
          /\ Get(series_data[1], "observations", <<>>) # <<>>
          /\ LET last == LastOf(series_data[1]) IN
                Get(last, "value", NoneS) = "12.3" /\ Get(last, "time", NoneS) = "2024-01-01T10:00:00Z"
    /\ fetched.info_resp.kind = "http" /\ HasData(fetched.info_resp)
    /\ LET stations == fetched.info_resp.body.data IN
          /\ stations # <<>>
          /\ Get(stations[1], "culQm", NoneS) = "8.0"
          /\ Get(stations[1], "culQ5", NoneS) = "40.0"
          /\ Get(stations[1], "culQ50", NoneS) = "120.0"

\* The published snapshot of the scenario, up to the observation time.
ScenarioSnapshot(s) ==
    /\ Get(s, "station_id", NoneS) = StationId
    /\ Len(ObservationRecords(gen, s)) = 1
    /\ ObservationRecords(gen, s)[1].value = "12.3"
    /\ Get(s, "culq_data", EmptyDict) = [culQm |-> "8.0", culQ5 |-> "40.0", culQ50 |-> "120.0"]

\* C21 as stated: in the end-to-end scenario the published snapshot holds the
\* configured station id, one observation record with value 12.3 whose time is
\* the timezone-aware UTC instant parsed from "2024-01-01T10:00:00Z", and the
\* flood statistics 8.0, 40.0 and 120.0.
C21_ScenarioPublishesInstant ==
    ScenarioAnswered =>
        /\ ScenarioSnapshot(SnapshotOf(gen, data))
        /\ ObservationRecords(gen, SnapshotOf(gen, data))[1].time
               = fromisoformat("2024-01-01T10:00:00Z")

-----------------------------------------------------------------------------
(* Properties of the requests *)

CarriesKey(req, key) == Get(req.headers, "X-API-Key", NoneS) = key

\* C22: every request sent (Parameters probe, Stations lookup by name or by
\* id, Observations fetch) carries the key the client was constructed with in
\* its X-API-Key header, also after close() and a new session; the client's
\* key stays the one it was constructed with.
C22_EveryRequestCarriesKey ==
    host.kind = "wire" =>
        /\ host.api.api_key = host.key
        /\ host.last # NoRequest => CarriesKey(host.last, host.key)
        /\ \A i \in 1..Len(host.tick_requests) : CarriesKey(host.tick_requests[i], host.key)

\* C22 witness: a request went out through a session obtained after close().
C22_Witness ==
    /\ host.kind = "wire"
    /\ host.closes >= 1
    /\ host.sessions >= 2
    /\ host.api.session.state = "open"
    /\ host.last.endpoint \in {"Parameters", "Stations", "Observations"}
    /\ CarriesKey(host.last, host.key)


\* The Parameter value one batched request for the configured series carries.
BatchedParameter(g, l) ==
    IF g # "sildre" THEN "1001"
    ELSE IF Len(l) = 0 THEN ""
    ELSE IF Len(l) = 1 THEN l[1].parameter
    ELSE l[1].parameter \o "," \o l[2].parameter

\* C24: a refresh tick sends exactly two requests in a fixed order: first one
\* Observations request naming every configured parameter, the ids joined by
\* commas, then one Stations request for the station; the second is sent
\* whether the observation fetch returned data or nothing.
C24_TwoRequestsInOrder ==
    host.kind = "wire" =>
        /\ host.pc = "idle" /\ host.ticks = 0 => host.tick_requests = <<>>
        /\ host.pc = "obs" => Len(host.tick_requests) = 1
        /\ host.pc = "info" \/ (host.pc = "idle" /\ host.ticks > 0) =>
               /\ Len(host.tick_requests) = 2
               /\ host.obs \in {"data", "nothing"}
               /\ host.tick_requests[2].endpoint = "Stations"
               /\ host.tick_requests[2].params = [StationId |-> StationId]
        /\ host.tick_requests # <<>> =>
               /\ host.tick_requests[1].endpoint = "Observations"
               /\ host.tick_requests[1].params.StationId = StationId
               /\ host.tick_requests[1].params.Parameter
                      = BatchedParameter(host.gen, host.station_series_list)

\* C24 witness: a sildre tick for two configured parameters whose observation
\* fetch returned nothing has ended after its two requests.
C24_Witness ==
    /\ host.kind = "wire"
    /\ host.gen = "sildre"
    /\ host.pc = "idle"
    /\ host.ticks > 0
    /\ host.obs = "nothing"
    /\ Len(host.station_series_list) = 2
    /\ Len(host.tick_requests) = 2
    /\ host.tick_requests[1].params.Parameter = "1001,1000"
    /\ host.tick_requests[2].endpoint = "Stations"

-----------------------------------------------------------------------------
(* Properties of the coordinator: identity, partial merge, agreement *)

\* The values the coordinator holds as published: coordinator.data and, in
\* sildre, coordinator.station_data.
Published == IF gen = "sildre" THEN {data, station_data} ELSE {data}

\* The station whose info the tick that just finished received, if any.
UpstreamStationId ==
    IF fetched.info_resp.kind = "http" /\ HasData(fetched.info_resp)
       /\ fetched.info_resp.body.data # <<>>
    THEN Get(fetched.info_resp.body.data[1], "stationId", NoneS)
    ELSE NoneS

\* C23: the station id of every published snapshot, and of the snapshot a
\* tick is building, is the one the coordinator was constructed with, whatever
\* id the upstream answers carry; nve_water_flow publishes under that id only.
C23_SnapshotKeepsStationId ==
    /\ pc # "idle" => local.station_id = StationId
    /\ \A v \in Published :
          (v.tag = "dict" /\ DOMAIN v.d # {}) =>
              /\ gen = "nve_water_flow" => DOMAIN v.d = {StationId}
              /\ SnapshotOf(gen, v).station_id = StationId
              /\ "water_flow_data" \in DOMAIN SnapshotOf(gen, v) =>
                     SnapshotOf(gen, v).water_flow_data.station_id = StationId

\* C23 witness: the Stations answer named another station, and the snapshot
\* published with its flood statistics keeps the configured id.
C23_Witness ==
    /\ TickDone
    /\ UpstreamStationId = "12.7.0"
    /\ Truthy(fetched.info)
    /\ data.tag = "dict"
    /\ "culq_data" \in DOMAIN SnapshotOf(gen, data)
    /\ SnapshotOf(gen, data).station_id = StationId


\* The station-info fetch of the tick that just finished yielded data.
InfoYielded(f) == f.info.tag # "raise" /\ Truthy(f.info)

\* Exactly one of the two fetches of the tick yielded data.
ExactlyOneYielded(f) == Truthy(f.obs) # InfoYielded(f)

\* C26: a tick in which exactly one of the two fetches yields data is not
\* discarded: it publishes a snapshot of that tick holding the part fetched in
\* it (observations without culq_data, or culq_data without observations) and
\* nothing carried over from the previous snapshot.
C26_PartialTickPublishesItsPart ==
    [][ (TickEnds /\ ExactlyOneYielded(fetched')) =>
            LET s == SnapshotOf(gen, data')
                obs_key == IF gen = "sildre" THEN "series_data" ELSE "water_flow_data"
            IN  /\ outcome'.tag # "raise"
                /\ DOMAIN s # {}
                /\ s.last_update = now
                /\ obs_key \in DOMAIN s <=> Truthy(fetched'.obs)
                /\ obs_key \in DOMAIN s =>
                       s[obs_key] = IF gen = "sildre" THEN fetched'.obs.items ELSE fetched'.obs.d
                /\ "culq_data" \in DOMAIN s =>
                       /\ InfoYielded(fetched')
                       /\ \A k \in DOMAIN s.culq_data :
                              k \in DOMAIN fetched'.info.d /\ s.culq_data[k] = fetched'.info.d[k]
      ]_vars

-----------------------------------------------------------------------------
(* Properties of the configuration flow: the entry created *)

\* The station a Stations answer names first, if it names one.
StationFound(resp) == HasData(resp) /\ resp.body.data # <<>>

\* C27: the flow creates an entry only after test_connection succeeded for the
\* stored key in the credential step and get_station_info then returned a
\* station for a non-empty station id; the entry holds exactly that key, that
\* station id and the name and series list of that station info.  An empty
\* station id, or an answer naming no station, shows the station form again
\* with 'invalid_station' and creates nothing.
C27_EntryOnlyAfterBothValidations ==
    host.kind = "flow" =>
        /\ host.type = "create_entry" =>
              /\ host.input.step = "station"
              /\ host.input.station_id # ""
              /\ StationFound(host.input.resp)
              /\ LET station == host.input.resp.body.data[1] IN
                    /\ host.entry.api_key \in host.accepted
                    /\ host.entry.station_id = host.input.station_id
                    /\ host.entry.station_name =
                           Get(station, "stationName",
                               IF host.gen = "sildre" THEN NoneS ELSE host.input.station_id)
                    /\ host.gen = "sildre" =>
                           host.entry.station_series_list = StationRecord(station).series_list
        /\ (Submitted("station")
            /\ (host.input.station_id = ""
                \/ (Ok200(host.input.resp) /\ ~StationFound(host.input.resp)))) =>
              /\ host.type = "form"
              /\ host.step = "station"
              /\ host.errors = "invalid_station"
              /\ host.entry = EmptyDict


-----------------------------------------------------------------------------
(* Properties of the coordinator: the two views of a snapshot *)

\* C28: after every completed sildre tick coordinator.station_data and
\* coordinator.data agree: both hold the same snapshot, the one of that tick,
\* or both are empty.
C28_TwoViewsAgree ==
    (TickDone /\ gen = "sildre") =>
        \/ /\ Truthy(data)
           /\ station_data = data
           /\ data.d.last_update = now
        \/ /\ ~Truthy(data)
           /\ ~Truthy(station_data)

-----------------------------------------------------------------------------
(* Properties of the sensors *)

\* C30: whatever the sildre coordinator holds (nothing, an empty snapshot,
\* observations only, flood statistics only, a snapshot without the sensor's
\* parameter), reading native_value and extra_state_attributes of a
\* measurement sensor raises nothing, and the value is None when the snapshot
\* has no record for the sensor's parameter.
C30_SensorProjectionIsTotal ==
    gen = "sildre" =>
        \A parameter_id \in SensorParameterIds :
            /\ native_value(data, station_data, parameter_id).tag # "raise"
            /\ extra_state_attributes(data, station_data, parameter_id).tag # "raise"
            /\ get_data_for_parameter(station_data, parameter_id) = PyNone
                   => native_value(data, station_data, parameter_id) = PyNone

====
